---- MODULE Spec2Model ----
(***************************************************************************)
(* Delay analytics of tracker/views_delay_analytics.py.                    *)
(*                                                                         *)
(* The order store is a multiset of Order rows (the views only ever count  *)
(* distinct primary keys, so a row's identity is its multiplicity).  Time  *)
(* is counted in hours.  Every view is one action that evaluates the whole *)
(* handler on the current store and clock and records the response.        *)
(***************************************************************************)
EXTENDS Integers, Sequences, FiniteSets, TLC

VARIABLES orders, now, rowOrder, resp

vars == <<orders, now, rowOrder, resp>>

----------------------------------------------------------------------------
(* Bounds of the model                                                     *)

MaxOrders == 3
MaxTicks == 1

----------------------------------------------------------------------------
(* Values                                                                  *)

NULL == -1
Day == 24
Now0 == 9000
TickHours == 48

\* DelayReasonCategory rows: primary key -> machine code
CategoryCode == <<"mechanical", "logistics", "staffing", "parts">>
Categories == DOMAIN CategoryCode

\* DelayReason rows: primary key -> category (NULL: reason without category)
ReasonCategory == <<1, 2, 2, 3, 4, NULL, 1, 2, 3, 4, NULL, 3>>
Reasons == DOMAIN ReasonCategory
ReasonText(r) == <<"reason", r>>

\* User rows: primary key -> names
UserRow == <<[first_name |-> "Ann", last_name |-> "Lee", username |-> "ann"],
             [first_name |-> "", last_name |-> "", username |-> "bob"]>>
Users == DOMAIN UserRow

OrderTypes == <<"service", "sales", "inquiry", "labour", "unspecified", "mixed">>

----------------------------------------------------------------------------
(* Arithmetic helpers                                                      *)

RECURSIVE SumOver(_, _)
SumOver(S, f) ==
    IF S = {} THEN 0
    ELSE LET x == CHOOSE y \in S : TRUE IN f[x] + SumOver(S \ {x}, f)

RECURSIVE SeqSum(_)
SeqSum(s) == IF s = <<>> THEN 0 ELSE Head(s) + SeqSum(Tail(s))

\* round(): nearest integer to num/den, ties to the even neighbour
RoundHalfEven(num, den) ==
    LET q == num \div den
        r == num % den
    IN  IF 2 * r < den THEN q
        ELSE IF 2 * r > den THEN q + 1
        ELSE IF q % 2 = 0 THEN q ELSE q + 1

\* round(n / d * 100, 2) in hundredths of a percent; round(n / d * 100, 1) in tenths
Round2Pct(n, d) == RoundHalfEven(n * 10000, d)
Round1Pct(n, d) == RoundHalfEven(n * 1000, d)

\* an unrounded float n / d * 100, kept as the exact fraction
RECURSIVE Gcd(_, _)
Gcd(a, b) == IF b = 0 THEN a ELSE Gcd(b, a % b)
ExactPct(n, d) == LET g == Gcd(n * 100, d) IN <<(n * 100) \div g, d \div g>>

Min(a, b) == IF a < b THEN a ELSE b

----------------------------------------------------------------------------
(* Querysets: a queryset of Order rows is a sub-multiset of the store      *)

Count(qs) == SumOver(DOMAIN qs, qs)
\* filter(...): the rows of qs among those of keep
Filter(qs, keep) == [o \in DOMAIN qs \cap keep |-> qs[o]]

\* values(key).annotate(count=Count('id', distinct=True)): key -> count, for
\* key a function of the rows
GroupKeys(qs, key) == {key[o] : o \in DOMAIN qs}
GroupCount(qs, key) ==
    [k \in GroupKeys(qs, key) |-> Count(Filter(qs, {o \in DOMAIN qs : key[o] = k}))]

\* order_by('-count'): rows of equal count come in the store's row order
Before(x, y, cnt, rank, ro) ==
    \/ cnt[x] > cnt[y]
    \/ /\ cnt[x] = cnt[y]
       /\ IF ro = "asc" THEN rank[x] <= rank[y] ELSE rank[x] >= rank[y]

RECURSIVE OrderByCountDesc(_, _, _, _)
OrderByCountDesc(S, cnt, rank, ro) ==
    IF S = {} THEN <<>>
    ELSE LET x == CHOOSE y \in S : \A z \in S : Before(y, z, cnt, rank, ro)
         IN  <<x>> \o OrderByCountDesc(S \ {x}, cnt, rank, ro)

\* a slice that keeps one row too many
LimitOneMore(s, n) == SubSeq(s, 1, Min(Len(s), n + 1))

\* queryset / list slice [:n]
Limit(s, n) == SubSeq(s, 1, Min(Len(s), n))

----------------------------------------------------------------------------
(* Request parameters                                                      *)

\* request.GET.get(key, default)
GetParam(req, key, default) == IF key \in DOMAIN req.GET THEN req.GET[key] ELSE default

\* coercion of the user parameter to the integer primary key
NumericStrings == {"1", "2", "99"}
IntOf(s) == CASE s = "1" -> 1 [] s = "2" -> 2 [] s = "99" -> 99
UserParamInvalid(selected_user) ==
    selected_user # "" /\ selected_user \notin NumericStrings

PeriodDays7 == 7
PeriodDays30 == 30
PeriodDays90 == 90
PeriodDays180 == 180
PeriodDays365 == 365

\* the table with a 7-day fallback for unknown periods
StartDateFallback7(period, t) ==
    CASE period = "7days" -> t - PeriodDays7 * Day
      [] period = "30days" -> t - PeriodDays30 * Day
      [] period = "90days" -> t - PeriodDays90 * Day
      [] period = "6months" -> t - PeriodDays180 * Day
      [] period = "1year" -> t - PeriodDays365 * Day
      [] period = "all" -> NULL
      [] OTHER -> t - PeriodDays7 * Day

\* the table without its 'all' entry: 'all' falls back to the 30-day window
StartDateAllMissing(period, t) ==
    CASE period = "7days" -> t - PeriodDays7 * Day
      [] period = "30days" -> t - PeriodDays30 * Day
      [] period = "90days" -> t - PeriodDays90 * Day
      [] period = "6months" -> t - PeriodDays180 * Day
      [] period = "1year" -> t - PeriodDays365 * Day
      [] OTHER -> t - PeriodDays30 * Day

\* _get_start_date_from_period
GetStartDateFromPeriod(period, t) ==
    CASE period = "7days" -> t - PeriodDays7 * Day
      [] period = "30days" -> t - PeriodDays30 * Day
      [] period = "90days" -> t - PeriodDays90 * Day
      [] period = "6months" -> t - PeriodDays180 * Day
      [] period = "1year" -> t - PeriodDays365 * Day
      [] period = "all" -> NULL
      [] OTHER -> t - PeriodDays30 * Day

\* the parameters every view reads
TimePeriod(req) == GetParam(req, "period", "30days")
SelectedCategory(req) == GetParam(req, "category", "")
SelectedUser(req) == GetParam(req, "user", "")
SelectedOrderType(req) == GetParam(req, "order_type", "")
StartOf(req, t) == GetStartDateFromPeriod(TimePeriod(req), t)

----------------------------------------------------------------------------
(* Lookups across the relations                                            *)

IsDelayed(o) == o.delay_reason # NULL /\ o.delay_reason_reported_at # NULL

\* delay_reason__category__category: NULL when the reason or its category is missing
OrderCategoryCode(o) ==
    IF o.delay_reason = NULL THEN "NULL"
    ELSE IF ReasonCategory[o.delay_reason] = NULL THEN "NULL"
    ELSE CategoryCode[ReasonCategory[o.delay_reason]]

OrderCategory(o) ==
    IF o.delay_reason = NULL THEN NULL ELSE ReasonCategory[o.delay_reason]

\* _get_category_display: label of a known code, the code itself otherwise
CATEGORY_CHOICES == {"mechanical", "logistics", "staffing", "parts"}
GetCategoryDisplay(code) ==
    IF code \in CATEGORY_CHOICES THEN <<"label", code>> ELSE <<"text", code>>

TruncDate(t) == IF t = NULL THEN NULL ELSE t \div Day

\* the filter chain shared by the Order-table views
DelayedOrders(qs, user_branch, start_date, req) ==
    Filter(qs, {o \in DOMAIN qs :
        /\ IsDelayed(o)
        /\ user_branch # NULL => o.branch = user_branch
        /\ start_date # NULL => o.delay_reason_reported_at >= start_date
        /\ SelectedCategory(req) # "" => OrderCategoryCode(o) = SelectedCategory(req)
        /\ SelectedUser(req) # "" =>
              o.delay_reason_reported_by = IntOf(SelectedUser(req))
        /\ SelectedOrderType(req) # "" => o.type = SelectedOrderType(req)})

\* the period/scope view of the impact analysis and the recommendations
DelayedInScope(qs, user_branch, start_date) ==
    Filter(qs, {o \in DOMAIN qs :
        /\ IsDelayed(o)
        /\ user_branch # NULL => o.branch = user_branch
        /\ start_date # NULL => o.delay_reason_reported_at >= start_date})

\* an unhandled exception of the view
ServerError(kind) == [success |-> FALSE, error |-> kind]

----------------------------------------------------------------------------
(* delay_analytics_dashboard                                               *)

DashboardBaseline(store, user_branch, start_date) ==
    Filter(store, {o \in DOMAIN store :
        /\ o.branch = user_branch
        /\ o.status = "completed"
        /\ o.delay_reason_reported_at # NULL
        /\ start_date # NULL => o.delay_reason_reported_at >= start_date})

\* the division without its guard: no number comes back for a zero baseline
DelayRateUnguarded(total_delayed_orders, baseline) ==
    IF baseline = 0 THEN NULL ELSE Round2Pct(total_delayed_orders, baseline)

DelayRate(total_delayed_orders, baseline) ==
    IF baseline > 0 THEN Round2Pct(total_delayed_orders, baseline) ELSE 0

DelayAnalyticsDashboard(store, t, req) ==
    LET user_branch == req.user_branch
        start_date == StartOf(req, t)
    IN  IF UserParamInvalid(SelectedUser(req)) THEN ServerError("ValueError")
        ELSE
        LET orders_qs == DelayedOrders(store, user_branch, start_date, req)
            total_delayed_orders == Count(orders_qs)
            total_orders == DashboardBaseline(store, user_branch, start_date)
        IN  [success |-> TRUE,
             time_period |-> TimePeriod(req),
             selected_category |-> SelectedCategory(req),
             selected_user |-> SelectedUser(req),
             selected_order_type |-> SelectedOrderType(req),
             total_delayed_orders |-> total_delayed_orders,
             delay_rate |-> DelayRate(total_delayed_orders, Count(total_orders))]

----------------------------------------------------------------------------
(* api_delay_analytics_summary                                             *)

\* One join of the orders relation per filter() call that names it: the
\* conditions of one call hold of one related order, the conditions of
\* different calls may hold of different related orders.
OrderJoins(user_branch, start_date, req) ==
    <<"base">>
    \o (IF user_branch # NULL THEN <<"branch">> ELSE <<>>)
    \o (IF start_date # NULL THEN <<"date">> ELSE <<>>)
    \o (IF SelectedUser(req) # "" THEN <<"user">> ELSE <<>>)
    \o (IF SelectedOrderType(req) # "" THEN <<"type">> ELSE <<>>)

JoinCond(tag, o, user_branch, start_date, req) ==
    CASE tag = "base" -> o.delay_reason_reported_at # NULL
      [] tag = "branch" -> o.branch = user_branch
      [] tag = "date" -> /\ o.delay_reason_reported_at # NULL
                         /\ o.delay_reason_reported_at >= start_date
      [] tag = "user" -> o.delay_reason_reported_by = IntOf(SelectedUser(req))
      [] tag = "type" -> o.type = SelectedOrderType(req)

ReasonCode(r) ==
    IF ReasonCategory[r] = NULL THEN "NULL" ELSE CategoryCode[ReasonCategory[r]]

\* delay_reasons_qs
DelayReasonsQs(store, user_branch, start_date, req) ==
    LET joins == OrderJoins(user_branch, start_date, req)
    IN  {r \in Reasons :
            /\ \A i \in DOMAIN joins : \E o \in DOMAIN store :
                  /\ o.delay_reason = r
                  /\ JoinCond(joins[i], o, user_branch, start_date, req)
            /\ SelectedCategory(req) # "" => ReasonCode(r) = SelectedCategory(req)}

\* annotate(order_count=Count('orders', distinct=True)): the count runs over
\* the join the annotation reuses, the first or the most recent one
OrderCountOf(store, r, alias, user_branch, start_date, req) ==
    LET joins == OrderJoins(user_branch, start_date, req)
        tag == IF alias = "first" THEN joins[1] ELSE joins[Len(joins)]
    IN  Count(Filter(store, {o \in DOMAIN store :
            /\ o.delay_reason = r
            /\ JoinCond(tag, o, user_branch, start_date, req)}))

TopReasonsLimit == 10

TopReasonsRaw(store, alias, ro, user_branch, start_date, req) ==
    LET qs == DelayReasonsQs(store, user_branch, start_date, req)
        order_count == [r \in qs |->
                          OrderCountOf(store, r, alias, user_branch, start_date, req)]
        kept == {r \in qs : order_count[r] > 0}
    IN  Limit(OrderByCountDesc(kept, order_count, [r \in kept |-> r], ro),
              TopReasonsLimit)

SummaryBaseline(store, user_branch, start_date) ==
    Filter(store, {o \in DOMAIN store :
        /\ user_branch # NULL => o.branch = user_branch
        /\ start_date # NULL => o.created_at >= start_date})

TopReasonEntry(orders_with_delays, total_delayed, r) ==
    LET count_for_reason ==
            Count(Filter(orders_with_delays,
                         {o \in DOMAIN orders_with_delays : o.delay_reason = r}))
    IN  [reason_text |-> ReasonText(r),
         category |-> IF ReasonCategory[r] # NULL THEN ReasonCode(r) ELSE "",
         category_display |-> IF ReasonCategory[r] # NULL
                              THEN GetCategoryDisplay(ReasonCode(r))
                              ELSE <<"text", "Unknown">>,
         count |-> count_for_reason,
         percentage |-> IF total_delayed > 0
                        THEN ExactPct(count_for_reason, total_delayed)
                        ELSE <<0, 1>>]

ApiDelayAnalyticsSummary(store, t, req, alias, ro) ==
    LET user_branch == req.user_branch
        start_date == StartOf(req, t)
    IN  IF UserParamInvalid(SelectedUser(req)) THEN ServerError("ValueError")
        ELSE
        LET orders_with_delays == DelayedOrders(store, user_branch, start_date, req)
            total_delayed == Count(orders_with_delays)
            total_all == Count(SummaryBaseline(store, user_branch, start_date))
            with_times == Filter(orders_with_delays, {o \in DOMAIN orders_with_delays :
                              o.started_at # NULL /\ o.completed_at # NULL})
            total_duration == SumOver(DOMAIN with_times,
                [o \in DOMAIN with_times |->
                    with_times[o] * (o.completed_at - o.started_at)])
            count == Count(with_times)
            top_reasons_raw ==
                TopReasonsRaw(store, alias, ro, user_branch, start_date, req)
        IN  [success |-> TRUE,
             summary |->
               [total_delayed_orders |-> total_delayed,
                total_all_orders |-> total_all,
                delay_percentage |-> DelayRate(total_delayed, total_all),
                exceeded_2_hours |->
                    Count(Filter(orders_with_delays,
                        {o \in DOMAIN orders_with_delays : o.exceeded_9_hours})),
                average_hours |-> IF count > 0
                                  THEN RoundHalfEven(total_duration * 10, count)
                                  ELSE 0],
             top_reasons |->
               [i \in DOMAIN top_reasons_raw |->
                   TopReasonEntry(orders_with_delays, total_delayed,
                                  top_reasons_raw[i])]]

----------------------------------------------------------------------------
(* api_delay_reasons_breakdown                                             *)

\* categories_qs: the categories reached through the reasons__orders joins
CategoriesQs(store, user_branch, start_date, req) ==
    LET joins == OrderJoins(user_branch, start_date, req)
    IN  {c \in Categories :
            /\ \A i \in DOMAIN joins : \E o \in DOMAIN store :
                  /\ OrderCategory(o) = c
                  /\ JoinCond(joins[i], o, user_branch, start_date, req)
            /\ SelectedCategory(req) # "" => CategoryCode[c] = SelectedCategory(req)}

\* orders_count without the period filter
CategoryOrdersAnyDate(store, c, user_branch, start_date, req) ==
    Filter(store, {o \in DOMAIN store :
        /\ OrderCategory(o) = c
        /\ o.delay_reason_reported_at # NULL
        /\ user_branch # NULL => o.branch = user_branch
        /\ SelectedUser(req) # "" =>
              o.delay_reason_reported_by = IntOf(SelectedUser(req))
        /\ SelectedOrderType(req) # "" => o.type = SelectedOrderType(req)})

\* orders_count of one category: the category filter is the category itself
CategoryOrders(store, c, user_branch, start_date, req) ==
    Filter(store, {o \in DOMAIN store :
        /\ OrderCategory(o) = c
        /\ o.delay_reason_reported_at # NULL
        /\ user_branch # NULL => o.branch = user_branch
        /\ start_date # NULL => o.delay_reason_reported_at >= start_date
        /\ SelectedUser(req) # "" =>
              o.delay_reason_reported_by = IntOf(SelectedUser(req))
        /\ SelectedOrderType(req) # "" => o.type = SelectedOrderType(req)})

PercentageOfTotal(count, total) ==
    IF total > 0 THEN Round1Pct(count, total) ELSE 0

ApiDelayReasonsBreakdown(store, t, req, ro) ==
    LET user_branch == req.user_branch
        start_date == StartOf(req, t)
    IN  IF UserParamInvalid(SelectedUser(req)) THEN ServerError("ValueError")
        ELSE
        LET qs == CategoriesQs(store, user_branch, start_date, req)
            cnt == [c \in qs |->
                      Count(CategoryOrders(store, c, user_branch, start_date, req))]
            kept == {c \in qs : cnt[c] > 0}
            sorted == OrderByCountDesc(kept, cnt, [c \in kept |-> c], ro)
            total == SumOver(kept, cnt)
        IN  [success |-> TRUE,
             data |-> [i \in DOMAIN sorted |->
                         [category |-> CategoryCode[sorted[i]],
                          category_name |-> GetCategoryDisplay(CategoryCode[sorted[i]]),
                          count |-> cnt[sorted[i]],
                          percentage |-> PercentageOfTotal(cnt[sorted[i]], total)]],
             total |-> total]

----------------------------------------------------------------------------
(* api_delay_trends                                                        *)

RECURSIVE Ascending(_)
Ascending(S) ==
    IF S = {} THEN <<>>
    ELSE LET x == CHOOSE y \in S : \A z \in S : y <= z
         IN  <<x>> \o Ascending(S \ {x})

Reverse(s) == [i \in DOMAIN s |-> s[Len(s) + 1 - i]]

OrderDate(o) == TruncDate(o.delay_reason_reported_at)
CompletedDate(o) == TruncDate(o.completed_at)

CompletedDaily(store, user_branch, start_date) ==
    Filter(store, {o \in DOMAIN store :
        /\ o.status = "completed"
        /\ user_branch # NULL => o.branch = user_branch
        /\ start_date # NULL =>
              (o.completed_at # NULL /\ o.completed_at >= start_date)})

ApiDelayTrends(store, t, req) ==
    LET user_branch == req.user_branch
        start_date == StartOf(req, t)
    IN  IF UserParamInvalid(SelectedUser(req)) THEN ServerError("ValueError")
        ELSE
        LET orders_qs == DelayedOrders(store, user_branch, start_date, req)
            daily_delays == GroupCount(orders_qs, [o \in DOMAIN orders_qs |-> OrderDate(o)])
            exceeded == GroupCount(
                Filter(orders_qs, {o \in DOMAIN orders_qs : o.exceeded_9_hours}),
                [o \in DOMAIN orders_qs |-> OrderDate(o)])
            all_daily_dict ==
                GroupCount(CompletedDaily(store, user_branch, start_date),
                           [o \in DOMAIN store |-> CompletedDate(o)])
            dates == Ascending(DOMAIN daily_delays)
            total_day(d) == IF d \in DOMAIN all_daily_dict THEN all_daily_dict[d] ELSE 0
        IN  [success |-> TRUE,
             data |-> [i \in DOMAIN dates |->
                 [date |-> dates[i],
                  delayed_count |-> daily_delays[dates[i]],
                  exceeded_9h |-> IF dates[i] \in DOMAIN exceeded
                                  THEN exceeded[dates[i]] ELSE 0,
                  total_orders |-> total_day(dates[i]),
                  delay_rate |->
                      PercentageOfTotal(daily_delays[dates[i]], total_day(dates[i]))]]]

----------------------------------------------------------------------------
(* api_delay_by_order_type                                                 *)

TypeRank(ty) == CHOOSE i \in DOMAIN OrderTypes : OrderTypes[i] = ty
OrderType(o) == o.type

\* TYPE_CHOICES label of a type code
TypeDisplay(ty) == <<"label", ty>>

\* Count(...) * 100.0 / orders_qs.count() is evaluated by the database for
\* every group row: a zero divisor fails there
SqlDivisionFails(groups, divisor) == groups # {} /\ divisor = 0

ApiDelayByOrderType(store, t, req, ro) ==
    LET user_branch == req.user_branch
        start_date == StartOf(req, t)
    IN  IF UserParamInvalid(SelectedUser(req)) THEN ServerError("ValueError")
        ELSE
        LET orders_qs == DelayedOrders(store, user_branch, start_date, req)
            cnt == GroupCount(orders_qs, [o \in DOMAIN orders_qs |-> OrderType(o)])
            divisor == Count(orders_qs)
            sorted == OrderByCountDesc(DOMAIN cnt, cnt,
                                       [k \in DOMAIN cnt |-> TypeRank(k)], ro)
        IN  IF SqlDivisionFails(DOMAIN cnt, divisor)
            THEN ServerError("DivisionByZero")
            ELSE [success |-> TRUE,
                  data |-> [i \in DOMAIN sorted |->
                      [type |-> sorted[i],
                       type_name |-> TypeDisplay(sorted[i]),
                       count |-> cnt[sorted[i]],
                       percentage |-> Round1Pct(cnt[sorted[i]], divisor)]]]

----------------------------------------------------------------------------
(* api_delay_by_user                                                       *)

Reporter(o) == o.delay_reason_reported_by

\* f"{first_name} {last_name}".strip() or username
UserName(u) ==
    IF UserRow[u].first_name = "" /\ UserRow[u].last_name = ""
    THEN <<UserRow[u].username>>
    ELSE <<UserRow[u].first_name, UserRow[u].last_name>>

ApiDelayByUser(store, t, req, ro) ==
    LET user_branch == req.user_branch
        start_date == StartOf(req, t)
    IN  IF UserParamInvalid(SelectedUser(req)) THEN ServerError("ValueError")
        ELSE
        LET orders_qs == Filter(DelayedOrders(store, user_branch, start_date, req),
                                {o \in DOMAIN store : o.delay_reason_reported_by # NULL})
            cnt == GroupCount(orders_qs, [o \in DOMAIN orders_qs |-> Reporter(o)])
            exceeded == GroupCount(
                Filter(orders_qs, {o \in DOMAIN orders_qs : o.exceeded_9_hours}),
                [o \in DOMAIN orders_qs |-> Reporter(o)])
            sorted == OrderByCountDesc(DOMAIN cnt, cnt, [k \in DOMAIN cnt |-> k], ro)
        IN  [success |-> TRUE,
             data |-> [i \in DOMAIN sorted |->
                 [user_id |-> sorted[i],
                  user_name |-> UserName(sorted[i]),
                  delay_count |-> cnt[sorted[i]],
                  exceeded_2h_count |-> IF sorted[i] \in DOMAIN exceeded
                                        THEN exceeded[sorted[i]] ELSE 0]]]

----------------------------------------------------------------------------
(* api_delay_impact_analysis                                               *)

ThresholdHours == 9
ReasonImpactLimit == 5

\* the invoices of one order whose total_amount is truthy
InvoiceTotal(o) ==
    SeqSum([i \in DOMAIN o.invoices |->
               IF o.invoices[i] = NULL THEN 0 ELSE o.invoices[i]])

\* the rows the impact loop visits
ImpactLoop(orders_qs) ==
    Filter(orders_qs, {o \in DOMAIN orders_qs : o.started_at # NULL /\ o.completed_at # NULL})

DelayedHours(o) ==
    LET duration == o.completed_at - o.started_at
    IN  IF duration > ThresholdHours THEN duration - ThresholdHours ELSE 0

Customer(o) == o.customer
Reason(o) == o.delay_reason

ApiDelayImpactAnalysis(store, t, req, ro) ==
    LET user_branch == req.user_branch
        start_date == StartOf(req, t)
        orders_qs == DelayedInScope(store, user_branch, start_date)
        loop == ImpactLoop(orders_qs)
        total_delayed_hours ==
            SumOver(DOMAIN loop, [o \in DOMAIN loop |-> loop[o] * DelayedHours(o)])
        total_revenue_at_risk ==
            SumOver(DOMAIN loop, [o \in DOMAIN loop |-> loop[o] * InvoiceTotal(o)])
        per_customer == GroupCount(orders_qs, [o \in DOMAIN orders_qs |-> Customer(o)])
        cnt == GroupCount(orders_qs, [o \in DOMAIN orders_qs |-> Reason(o)])
        sorted == Limit(OrderByCountDesc(DOMAIN cnt, cnt, [k \in DOMAIN cnt |-> k], ro),
                        ReasonImpactLimit)
    IN  [success |-> TRUE,
         impact |->
           [total_delayed_hours |-> total_delayed_hours * 10,
            estimated_revenue_impact |-> total_revenue_at_risk,
            customers_with_repeat_delays |->
                Cardinality({c \in DOMAIN per_customer : per_customer[c] >= 2}),
            total_unique_customers_affected |-> Cardinality(DOMAIN per_customer)],
         reason_impact |-> [i \in DOMAIN sorted |->
             [reason_text |-> ReasonText(sorted[i]),
              category |-> ReasonCode(sorted[i]),
              category_display |-> GetCategoryDisplay(ReasonCode(sorted[i])),
              count |-> cnt[sorted[i]],
              affected_customers |-> Cardinality(GroupKeys(
                  Filter(orders_qs, {o \in DOMAIN orders_qs : o.delay_reason = sorted[i]}),
                  [o \in DOMAIN orders_qs |-> Customer(o)]))]]]

----------------------------------------------------------------------------
(* api_delay_recommendations                                               *)

TopReasonsForAdvice == 3
RecentDays == 7
RecommendationLimit == 8
DominantTenths == 3
UrgentPercent == 20
TrendAverage == 2

\* the comparison with >= in place of >
DominantAtLeast(top_count, total) == top_count * 10 >= total * DominantTenths

\* top_cat['count'] > orders_qs.count() * 0.3
Dominant(top_count, total) == top_count * 10 > total * DominantTenths

\* the record of analysis 1 for the top category and the view size
ProcessImprovement(top_cat, top_count, total) ==
    LET code == IF top_cat = NULL THEN "NULL" ELSE CategoryCode[top_cat]
    IN  [priority |-> "high",
         category |-> "Process Improvement",
         title |-> <<"Address", GetCategoryDisplay(code)>>,
         description |-> <<"pct", Round1Pct(top_count, total)>>,
         impact |-> "high"]

\* Analysis 1: most common category
DominantCategoryAdvice(orders_qs, ro) ==
    LET category_counts == GroupCount(orders_qs, [o \in DOMAIN orders_qs |-> OrderCategory(o)])
        sorted == OrderByCountDesc(DOMAIN category_counts, category_counts,
                                   [k \in DOMAIN category_counts |-> k], ro)
    IN  IF sorted = <<>> THEN <<>>
        ELSE LET top_cat == sorted[1]
             IN  IF Dominant(category_counts[top_cat], Count(orders_qs))
                 THEN <<ProcessImprovement(top_cat, category_counts[top_cat],
                                           Count(orders_qs))>>
                 ELSE <<>>

\* the record of analysis 2 for the exceeded count and the view size
Urgent(exceeded_count, total) ==
    [priority |-> IF exceeded_count * 100 > UrgentPercent * total
                  THEN "high" ELSE "medium",
     category |-> "Urgent",
     title |-> <<"pct", Round1Pct(exceeded_count, total)>>,
     description |-> <<"exceeded", exceeded_count>>,
     impact |-> "critical"]

\* Analysis 2: orders exceeding the threshold
ThresholdAdvice(orders_qs) ==
    LET exceeded_count == Count(Filter(orders_qs, {o \in DOMAIN orders_qs : o.exceeded_9_hours}))
        total == Count(orders_qs)
    IN  IF exceeded_count > 0 /\ total > 0
        THEN <<Urgent(exceeded_count, total)>>
        ELSE <<>>

\* Analysis 3 without the slice [:3]: a record for every reason
RootCauseAdviceUnsliced(orders_qs, ro) ==
    LET cnt == GroupCount(orders_qs, [o \in DOMAIN orders_qs |-> Reason(o)])
        top_reasons == OrderByCountDesc(DOMAIN cnt, cnt, [k \in DOMAIN cnt |-> k], ro)
    IN  [i \in DOMAIN top_reasons |->
            [priority |-> "medium",
             category |-> "Root Cause Analysis",
             title |-> <<"Investigate", ReasonText(top_reasons[i])>>,
             description |-> <<"incidents", cnt[top_reasons[i]]>>,
             impact |-> "medium"]]

\* Analysis 3: the most frequent reasons
RootCauseAdvice(orders_qs, ro) ==
    LET cnt == GroupCount(orders_qs, [o \in DOMAIN orders_qs |-> Reason(o)])
        top_reasons == Limit(
            OrderByCountDesc(DOMAIN cnt, cnt, [k \in DOMAIN cnt |-> k], ro),
            TopReasonsForAdvice)
    IN  [i \in DOMAIN top_reasons |->
            [priority |-> "medium",
             category |-> "Root Cause Analysis",
             title |-> <<"Investigate", ReasonText(top_reasons[i])>>,
             description |-> <<"incidents", cnt[top_reasons[i]]>>,
             impact |-> "medium"]]

\* Analysis 4: the most recent days with reports
TrendAdvice(orders_qs) ==
    LET cnt == GroupCount(orders_qs, [o \in DOMAIN orders_qs |-> OrderDate(o)])
        daily_rates == Limit(Reverse(Ascending(DOMAIN cnt)), RecentDays)
        total == SeqSum([i \in DOMAIN daily_rates |-> cnt[daily_rates[i]]])
    IN  IF daily_rates # <<>> /\ total > TrendAverage * Len(daily_rates)
        THEN <<[priority |-> "high",
                category |-> "Trend",
                title |-> <<"Increasing Delay Incidents">>,
                description |->
                    <<"avg", RoundHalfEven(total * 10, Len(daily_rates))>>,
                impact |-> "high"]>>
        ELSE <<>>

PriorityRank(p) ==
    CASE p = "high" -> 0 [] p = "medium" -> 1 [] p = "low" -> 2 [] OTHER -> 3

Backwards(s) == [i \in DOMAIN s |-> s[Len(s) + 1 - i]]

\* a sort by priority rank that turns around the records of equal rank
SortByPriorityUnstable(recs) ==
    Backwards(SelectSeq(recs, LAMBDA r : PriorityRank(r.priority) = 0))
    \o Backwards(SelectSeq(recs, LAMBDA r : PriorityRank(r.priority) = 1))
    \o Backwards(SelectSeq(recs, LAMBDA r : PriorityRank(r.priority) = 2))
    \o Backwards(SelectSeq(recs, LAMBDA r : PriorityRank(r.priority) = 3))

\* list.sort(key=priority rank): stable
SortByPriority(recs) ==
    SelectSeq(recs, LAMBDA r : PriorityRank(r.priority) = 0)
    \o SelectSeq(recs, LAMBDA r : PriorityRank(r.priority) = 1)
    \o SelectSeq(recs, LAMBDA r : PriorityRank(r.priority) = 2)
    \o SelectSeq(recs, LAMBDA r : PriorityRank(r.priority) = 3)

\* the view narrowed by the category parameter as well
RecommendationViewByCategory(store, user_branch, start_date, req) ==
    Filter(DelayedInScope(store, user_branch, start_date), {o \in DOMAIN store :
        SelectedCategory(req) # "" => OrderCategoryCode(o) = SelectedCategory(req)})

\* the view the recommendation rules read: period and scope only
RecommendationView(store, user_branch, start_date, req) ==
    DelayedInScope(store, user_branch, start_date)

ApiDelayRecommendations(store, t, req, ro) ==
    LET user_branch == req.user_branch
        start_date == StartOf(req, t)
        orders_qs == RecommendationView(store, user_branch, start_date, req)
        recommendations ==
            DominantCategoryAdvice(orders_qs, ro)
            \o ThresholdAdvice(orders_qs)
            \o RootCauseAdvice(orders_qs, ro)
            \o TrendAdvice(orders_qs)
    IN  [success |-> TRUE,
         recommendations |-> Limit(SortByPriority(recommendations),
                                   RecommendationLimit)]

----------------------------------------------------------------------------
(* api_all_delay_reasons                                                   *)

\* the listing on the period/scope view, the three filters forgotten
AllReasonsViewInScope(store, user_branch, start_date, req) ==
    DelayedInScope(store, user_branch, start_date)

\* orders_qs of the listing
AllReasonsView(store, user_branch, start_date, req) ==
    DelayedOrders(store, user_branch, start_date, req)

ApiAllDelayReasons(store, t, req, ro) ==
    LET user_branch == req.user_branch
        start_date == StartOf(req, t)
    IN  IF UserParamInvalid(SelectedUser(req)) THEN ServerError("ValueError")
        ELSE
        LET orders_qs == AllReasonsView(store, user_branch, start_date, req)
            total_delayed == Count(orders_qs)
            cnt == GroupCount(orders_qs, [o \in DOMAIN orders_qs |-> Reason(o)])
            sorted == OrderByCountDesc(DOMAIN cnt, cnt, [k \in DOMAIN cnt |-> k], ro)
        IN  IF total_delayed = 0
            THEN [success |-> TRUE, data |-> <<>>, total |-> 0,
                  message |-> <<"No delay reasons submitted in the selected period.">>]
            ELSE [success |-> TRUE,
                  data |-> [i \in DOMAIN sorted |->
                      [id |-> sorted[i],
                       reason_text |-> ReasonText(sorted[i]),
                       category |-> ReasonCode(sorted[i]),
                       category_name |-> GetCategoryDisplay(ReasonCode(sorted[i])),
                       count |-> cnt[sorted[i]],
                       percentage |-> Round1Pct(cnt[sorted[i]], total_delayed)]],
                  total |-> total_delayed,
                  message |-> <<"Showing", Len(sorted), total_delayed>>]

----------------------------------------------------------------------------
(* The store, the clock and the calls                                      *)

Order(branch, type, status, customer, created_at, started_at, completed_at, exceeded, reason, reported_by, reported_at, invoices) ==
    [branch |-> branch, type |-> type, status |-> status, customer |-> customer,
     created_at |-> created_at, started_at |-> started_at,
     completed_at |-> completed_at, exceeded_9_hours |-> exceeded,
     delay_reason |-> reason, delay_reason_reported_by |-> reported_by,
     delay_reason_reported_at |-> reported_at, invoices |-> invoices]

DaysAgo(d) == Now0 - d * Day

\* an order opened long ago whose delay was reported this week; still open
OpenOrder(reason, by, branch) ==
    Order(branch, "service", "in_progress", 1, DaysAgo(40), NULL, NULL, FALSE,
          reason, by, DaysAgo(6), <<100>>)

\* an order completed with a delay; duration in hours
DoneOrder(reason, by, branch, type, daysAgo, duration, invoices) ==
    Order(branch, type, "completed", 2, DaysAgo(daysAgo), DaysAgo(daysAgo),
          DaysAgo(daysAgo) + duration, duration > ThresholdHours,
          reason, by, DaysAgo(daysAgo) + duration, invoices)

\* an order completed without any delay report
PlainOrder(branch, daysAgo) ==
    Order(branch, "service", "completed", 1, DaysAgo(daysAgo), DaysAgo(daysAgo),
          DaysAgo(daysAgo) + 5, FALSE, NULL, NULL, NULL, <<10>>)

NoResp == [view |-> "none"]

Request(params, user_branch) == [GET |-> params, user_branch |-> user_branch]

\* every query string over the given values; "-" stands for an absent key
QueryStrings(periods, categories, users, types) ==
    LET Pick(key, vals) ==
            {IF v = "-" THEN <<>> ELSE <<<<key, v>>>> : v \in vals}
        AsFun(pairs) ==
            [k \in {pairs[i][1] : i \in DOMAIN pairs} |->
                (CHOOSE i \in DOMAIN pairs : pairs[i][1] = k) ]
    IN  { LET pairs == p \o c \o u \o ty
          IN  [k \in {pairs[i][1] : i \in DOMAIN pairs} |->
                  pairs[CHOOSE i \in DOMAIN pairs : pairs[i][1] = k][2]]
          : p \in Pick("period", periods), c \in Pick("category", categories),
            u \in Pick("user", users), ty \in Pick("order_type", types) }

Requests(periods, categories, users, types, scopes) ==
    {Request(q, b) : q \in QueryStrings(periods, categories, users, types),
                     b \in scopes}

Init ==
    /\ orders = <<>>
    /\ now = Now0
    /\ rowOrder \in [ties : {"asc", "desc"}, alias : {"first", "last"}]
    /\ resp = NoResp

\* the order system writes a row; the response on record is the response
\* to the last call since the last write, so a write waits for Deliver
InsertOrder(kinds, max) ==
    /\ resp = NoResp
    /\ Count(orders) < max
    /\ \E o \in kinds :
          orders' = [x \in DOMAIN orders \cup {o} |->
                        IF x = o
                        THEN (IF o \in DOMAIN orders THEN orders[o] + 1 ELSE 1)
                        ELSE orders[x]]
    /\ \E ties \in {"asc", "desc"} : rowOrder' = [rowOrder EXCEPT !.ties = ties]
    /\ UNCHANGED <<now, resp>>

DeleteOrder ==
    /\ resp = NoResp
    /\ \E o \in DOMAIN orders :
          orders' = [x \in {y \in DOMAIN orders : y # o \/ orders[o] > 1} |->
                        IF x = o THEN orders[o] - 1 ELSE orders[x]]
    /\ UNCHANGED <<now, rowOrder, resp>>

\* time passes
Tick ==
    /\ now < Now0 + MaxTicks * TickHours
    /\ now' = now + TickHours
    /\ UNCHANGED <<orders, rowOrder, resp>>

\* the response on record: the view, its request, the clock of the call, whether
\* the call repeats the request of the response held before, and the output
Response(view, req, out) ==
    [view |-> view, req |-> req, at |-> now, again |-> resp # NoResp, out |-> out]

\* a client calls a view: any request once the last response is delivered,
\* or the request of the response it still holds, again
MayCall(view, req) ==
    \/ resp = NoResp
    \/ (resp.view = view /\ resp.req = req)

Deliver ==
    /\ resp # NoResp
    /\ resp' = NoResp
    /\ UNCHANGED <<orders, now, rowOrder>>

Dashboard(reqs) ==
    /\ \E req \in reqs :
          /\ MayCall("dashboard", req)
          /\ resp' = Response("dashboard", req, DelayAnalyticsDashboard(orders, now, req))
    /\ UNCHANGED <<orders, now, rowOrder>>

Summary(reqs) ==
    /\ \E req \in reqs :
          /\ MayCall("summary", req)
          /\ resp' = Response("summary", req,
              ApiDelayAnalyticsSummary(orders, now, req, rowOrder.alias, rowOrder.ties))
    /\ UNCHANGED <<orders, now, rowOrder>>

Breakdown(reqs) ==
    /\ \E req \in reqs :
          /\ MayCall("breakdown", req)
          /\ resp' = Response("breakdown", req,
              ApiDelayReasonsBreakdown(orders, now, req, rowOrder.ties))
    /\ UNCHANGED <<orders, now, rowOrder>>

Trends(reqs) ==
    /\ \E req \in reqs :
          /\ MayCall("trends", req)
          /\ resp' = Response("trends", req, ApiDelayTrends(orders, now, req))
    /\ UNCHANGED <<orders, now, rowOrder>>

ByOrderType(reqs) ==
    /\ \E req \in reqs :
          /\ MayCall("by_order_type", req)
          /\ resp' = Response("by_order_type", req,
              ApiDelayByOrderType(orders, now, req, rowOrder.ties))
    /\ UNCHANGED <<orders, now, rowOrder>>

ByUser(reqs) ==
    /\ \E req \in reqs :
          /\ MayCall("by_user", req)
          /\ resp' = Response("by_user", req,
              ApiDelayByUser(orders, now, req, rowOrder.ties))
    /\ UNCHANGED <<orders, now, rowOrder>>

ImpactAnalysis(reqs) ==
    /\ \E req \in reqs :
          /\ MayCall("impact", req)
          /\ resp' = Response("impact", req,
              ApiDelayImpactAnalysis(orders, now, req, rowOrder.ties))
    /\ UNCHANGED <<orders, now, rowOrder>>

Recommendations(reqs) ==
    /\ \E req \in reqs :
          /\ MayCall("recommendations", req)
          /\ resp' = Response("recommendations", req,
              ApiDelayRecommendations(orders, now, req, rowOrder.ties))
    /\ UNCHANGED <<orders, now, rowOrder>>

AllDelayReasons(reqs) ==
    /\ \E req \in reqs :
          /\ MayCall("all_reasons", req)
          /\ resp' = Response("all_reasons", req,
              ApiAllDelayReasons(orders, now, req, rowOrder.ties))
    /\ UNCHANGED <<orders, now, rowOrder>>

\* the output of a view by its name
ViewOutput(view, store, t, req, ro) ==
    CASE view = "dashboard" -> DelayAnalyticsDashboard(store, t, req)
      [] view = "summary" -> ApiDelayAnalyticsSummary(store, t, req, ro.alias, ro.ties)
      [] view = "breakdown" -> ApiDelayReasonsBreakdown(store, t, req, ro.ties)
      [] view = "trends" -> ApiDelayTrends(store, t, req)
      [] view = "by_order_type" -> ApiDelayByOrderType(store, t, req, ro.ties)
      [] view = "by_user" -> ApiDelayByUser(store, t, req, ro.ties)
      [] view = "impact" -> ApiDelayImpactAnalysis(store, t, req, ro.ties)
      [] view = "recommendations" -> ApiDelayRecommendations(store, t, req, ro.ties)
      [] view = "all_reasons" -> ApiAllDelayReasons(store, t, req, ro.ties)

----------------------------------------------------------------------------
(* Spec: every view on a store of mixed orders; period, scope and clock    *)
(* vary                                                                    *)

MixedOrders ==
    {OpenOrder(1, 1, 1),
     DoneOrder(2, 2, 1, "sales", 29, 11, <<40, NULL>>),
     DoneOrder(6, NULL, 2, "service", 6, 5, <<>>),
     DoneOrder(2, 1, 2, "sales", 6, 11, <<25>>),
     PlainOrder(1, 6)}

PeriodRequests ==
    Requests({"-", "7days", "30days", "90days", "6months", "1year", "all", "foo"},
             {"-"}, {"-"}, {"-"}, {NULL, 1})

Next ==
    \/ InsertOrder(MixedOrders, MaxOrders)
    \/ DeleteOrder
    \/ Tick
    \/ Deliver
    \/ Dashboard(PeriodRequests)
    \/ Summary(PeriodRequests)
    \/ Breakdown(PeriodRequests)
    \/ Trends(PeriodRequests)
    \/ ByOrderType(PeriodRequests)
    \/ ByUser(PeriodRequests)
    \/ ImpactAnalysis(PeriodRequests)
    \/ Recommendations(PeriodRequests)
    \/ AllDelayReasons(PeriodRequests)

Spec == Init /\ [][Next]_vars

----------------------------------------------------------------------------
(* SpecFilters: the views on orders that share reasons between reporters,  *)
(* periods and branches; category, user and order type filters vary        *)

SharedReasonOrders ==
    {DoneOrder(1, 1, 1, "service", 40, 11, <<>>),
     DoneOrder(1, 2, 1, "sales", 6, 5, <<>>),
     DoneOrder(2, 1, 1, "service", 6, 5, <<>>),
     DoneOrder(6, NULL, 2, "sales", 6, 11, <<>>)}

FilterRequests ==
    Requests({"-"}, {"-", "logistics", "bogus"}, {"-", "1", "99", "abc"},
             {"-", "sales", "bogus"}, {NULL, 1})

NextFilters ==
    \/ InsertOrder(SharedReasonOrders, MaxOrders)
    \/ DeleteOrder
    \/ Deliver
    \/ Dashboard(FilterRequests)
    \/ Summary(FilterRequests)
    \/ Breakdown(FilterRequests)
    \/ Trends(FilterRequests)
    \/ ByOrderType(FilterRequests)
    \/ ByUser(FilterRequests)
    \/ Recommendations(FilterRequests)
    \/ AllDelayReasons(FilterRequests)

SpecFilters == Init /\ [][NextFilters]_vars

----------------------------------------------------------------------------
(* SpecAdvice: the recommendation rules on stores large enough for a       *)
(* category to hold 6 or 7 of 20 delayed orders                            *)

MaxAdviceOrders == 20

AdviceOrders ==
    {DoneOrder(r, 1, 1, "service", 6, 5, <<>>) : r \in {1, 2, 4, 6}}

AdviceRequests == Requests({"-", "7days"}, {"-"}, {"-"}, {"-"}, {NULL})

NextAdvice ==
    \/ InsertOrder(AdviceOrders, MaxAdviceOrders)
    \/ DeleteOrder
    \/ Deliver
    \/ Recommendations(AdviceRequests)

SpecAdvice == Init /\ [][NextAdvice]_vars

----------------------------------------------------------------------------
(* SpecLists: the length and order of the lists on stores with up to       *)
(* MaxListOrders orders spread over as many reasons; reasons 1 and 2 may   *)
(* hold several orders, the others come into use one after the other, and  *)
(* orders are not deleted                                                  *)

MaxListOrders == 11

\* a completed delayed order of reason r; the orders of reason 1 exceeded the
\* threshold
ListOrder(r) ==
    DoneOrder(r, 1, 1, "service", 6, IF r = 1 THEN 11 ELSE 5, <<>>)

\* orders of reasons 1 and 2, and of the next reason not yet in use
ListOrders ==
    {ListOrder(r) :
        r \in {1, 2, Min(Cardinality(DOMAIN orders) + 1, Len(ReasonCategory))}}

ListRequests == Requests({"-"}, {"-"}, {"-"}, {"-"}, {NULL})

NextLists ==
    \/ InsertOrder(ListOrders, MaxListOrders)
    \/ Deliver
    \/ Summary(ListRequests)
    \/ ImpactAnalysis(ListRequests)
    \/ Recommendations(ListRequests)

SpecLists == Init /\ [][NextLists]_vars

----------------------------------------------------------------------------
(* SpecRace: the dashboard and the recommendations query by query, with   *)
(* another process writing orders between the queries of a call; the      *)
(* record of a running call is held in resp until the call returns        *)

RunningViews == {"dashboard_running", "recommendations_running"}

\* the call on record returns
Return(view, out) ==
    [view |-> view, req |-> resp.req, at |-> resp.at, again |-> FALSE, out |-> out]

RaceOrders ==
    {DoneOrder(1, 1, 1, "service", 6, 11, <<>>),
     DoneOrder(2, 1, 1, "service", 6, 5, <<>>)}

RaceRequests == Requests({"-"}, {"-"}, {"-"}, {"-"}, {1})

\* another process inserts an order while a call runs
ConcurrentInsert(kinds, max) ==
    /\ resp.view \in RunningViews
    /\ Count(orders) < max
    /\ \E o \in kinds :
          orders' = [x \in DOMAIN orders \cup {o} |->
                        IF x = o
                        THEN (IF o \in DOMAIN orders THEN orders[o] + 1 ELSE 1)
                        ELSE orders[x]]
    /\ \E ties \in {"asc", "desc"} : rowOrder' = [rowOrder EXCEPT !.ties = ties]
    /\ UNCHANGED <<now, resp>>

\* another process deletes an order while a call runs
ConcurrentDelete ==
    /\ resp.view \in RunningViews
    /\ \E o \in DOMAIN orders :
          orders' = [x \in {y \in DOMAIN orders : y # o \/ orders[o] > 1} |->
                        IF x = o THEN orders[o] - 1 ELSE orders[x]]
    /\ UNCHANGED <<now, rowOrder, resp>>

\* the views of the running call, queried on the store as it is now
RunningBaseline ==
    DashboardBaseline(orders, resp.req.user_branch, StartOf(resp.req, resp.at))
RunningScope ==
    DelayedInScope(orders, resp.req.user_branch, StartOf(resp.req, resp.at))

\* delay_analytics_dashboard up to total_delayed_orders = orders_qs.count()
DashboardCount(reqs) ==
    /\ resp = NoResp
    /\ \E req \in reqs :
          resp' = [view |-> "dashboard_running", req |-> req, at |-> now,
                   pc |-> "test",
                   total_delayed_orders |->
                       Count(DelayedOrders(orders, req.user_branch,
                                           StartOf(req, now), req))]
    /\ UNCHANGED <<orders, now, rowOrder>>

DashboardContext(delay_rate) ==
    [success |-> TRUE,
     time_period |-> TimePeriod(resp.req),
     selected_category |-> SelectedCategory(resp.req),
     selected_user |-> SelectedUser(resp.req),
     selected_order_type |-> SelectedOrderType(resp.req),
     total_delayed_orders |-> resp.total_delayed_orders,
     delay_rate |-> delay_rate]

\* ... if total_orders.count() > 0 else 0
DashboardTest ==
    /\ resp.view = "dashboard_running" /\ resp.pc = "test"
    /\ resp' = IF Count(RunningBaseline) > 0
               THEN [resp EXCEPT !.pc = "divide"]
               ELSE Return("dashboard", DashboardContext(0))
    /\ UNCHANGED <<orders, now, rowOrder>>

\* total_delayed_orders / total_orders.count() * 100: the count is queried again
DashboardDivide ==
    /\ resp.view = "dashboard_running" /\ resp.pc = "divide"
    /\ resp' = Return("dashboard",
                 IF Count(RunningBaseline) = 0 THEN ServerError("ZeroDivisionError")
                 ELSE DashboardContext(Round2Pct(resp.total_delayed_orders,
                                                 Count(RunningBaseline))))
    /\ UNCHANGED <<orders, now, rowOrder>>

\* category_counts, as the database returns it now
RunningCategoryCounts ==
    GroupCount(RunningScope, [o \in DOMAIN RunningScope |-> OrderCategory(o)])

\* api_delay_recommendations up to category_counts.exists()
AdviceExists(reqs) ==
    /\ resp = NoResp
    /\ \E req \in reqs :
          resp' = [view |-> "recommendations_running", req |-> req, at |-> now,
                   pc |-> IF Count(DelayedInScope(orders, req.user_branch,
                                                  StartOf(req, now))) > 0
                          THEN "top_cat" ELSE "exceeded",
                   recs |-> <<>>, top_cat |-> NULL, top_count |-> 0,
                   exceeded_count |-> 0]
    /\ UNCHANGED <<orders, now, rowOrder>>

\* top_cat = category_counts[0]
AdviceTopCategory ==
    /\ resp.view = "recommendations_running" /\ resp.pc = "top_cat"
    /\ LET cnt == RunningCategoryCounts
           sorted == OrderByCountDesc(DOMAIN cnt, cnt, [k \in DOMAIN cnt |-> k],
                                      rowOrder.ties)
       IN  resp' = IF sorted = <<>>
                   THEN Return("recommendations", ServerError("IndexError"))
                   ELSE [resp EXCEPT !.pc = "compare", !.top_cat = sorted[1],
                                     !.top_count = cnt[sorted[1]]]
    /\ UNCHANGED <<orders, now, rowOrder>>

\* if top_cat['count'] > orders_qs.count() * 0.3
AdviceCompare ==
    /\ resp.view = "recommendations_running" /\ resp.pc = "compare"
    /\ resp' = [resp EXCEPT !.pc = IF Dominant(resp.top_count, Count(RunningScope))
                                   THEN "describe" ELSE "exceeded"]
    /\ UNCHANGED <<orders, now, rowOrder>>

\* round(top_cat['count'] / orders_qs.count() * 100, 1): the count is queried
\* again
AdviceDescribe ==
    /\ resp.view = "recommendations_running" /\ resp.pc = "describe"
    /\ resp' = IF Count(RunningScope) = 0
               THEN Return("recommendations", ServerError("ZeroDivisionError"))
               ELSE [resp EXCEPT !.pc = "exceeded",
                       !.recs = Append(@, ProcessImprovement(
                                   resp.top_cat, resp.top_count, Count(RunningScope)))]
    /\ UNCHANGED <<orders, now, rowOrder>>

\* exceeded_count = orders_qs.filter(exceeded_9_hours=True).count()
AdviceExceeded ==
    /\ resp.view = "recommendations_running" /\ resp.pc = "exceeded"
    /\ LET exceeded_count ==
               Count(Filter(RunningScope,
                            {o \in DOMAIN RunningScope : o.exceeded_9_hours}))
       IN  resp' = [resp EXCEPT !.exceeded_count = exceeded_count,
                                !.pc = IF exceeded_count > 0 THEN "test_total"
                                       ELSE "top_reasons"]
    /\ UNCHANGED <<orders, now, rowOrder>>

\* ... and orders_qs.count() > 0
AdviceTestTotal ==
    /\ resp.view = "recommendations_running" /\ resp.pc = "test_total"
    /\ resp' = [resp EXCEPT !.pc = IF Count(RunningScope) > 0 THEN "pct"
                                   ELSE "top_reasons"]
    /\ UNCHANGED <<orders, now, rowOrder>>

\* pct = (exceeded_count / orders_qs.count()) * 100: the count is queried again
AdvicePct ==
    /\ resp.view = "recommendations_running" /\ resp.pc = "pct"
    /\ resp' = IF Count(RunningScope) = 0
               THEN Return("recommendations", ServerError("ZeroDivisionError"))
               ELSE [resp EXCEPT !.pc = "top_reasons",
                       !.recs = Append(@, Urgent(resp.exceeded_count,
                                                 Count(RunningScope)))]
    /\ UNCHANGED <<orders, now, rowOrder>>

\* for reason in top_reasons
AdviceTopReasons ==
    /\ resp.view = "recommendations_running" /\ resp.pc = "top_reasons"
    /\ resp' = [resp EXCEPT !.pc = "exists",
                  !.recs = @ \o RootCauseAdvice(RunningScope, rowOrder.ties)]
    /\ UNCHANGED <<orders, now, rowOrder>>

AdviceResult(recs) ==
    [success |-> TRUE,
     recommendations |-> Limit(SortByPriority(recs), RecommendationLimit)]

\* if daily_rates.exists()
AdviceTrendExists ==
    /\ resp.view = "recommendations_running" /\ resp.pc = "exists"
    /\ resp' = IF Count(RunningScope) > 0
               THEN [resp EXCEPT !.pc = "average"]
               ELSE Return("recommendations", AdviceResult(resp.recs))
    /\ UNCHANGED <<orders, now, rowOrder>>

\* recent_avg = sum(...) / len(list(daily_rates)): the rows are fetched now
AdviceAverage ==
    /\ resp.view = "recommendations_running" /\ resp.pc = "average"
    /\ resp' = Return("recommendations",
                 IF Count(RunningScope) = 0 THEN ServerError("ZeroDivisionError")
                 ELSE AdviceResult(resp.recs \o TrendAdvice(RunningScope)))
    /\ UNCHANGED <<orders, now, rowOrder>>

NextRace ==
    \/ InsertOrder(RaceOrders, MaxOrders)
    \/ DeleteOrder
    \/ ConcurrentInsert(RaceOrders, MaxOrders)
    \/ ConcurrentDelete
    \/ Deliver
    \/ DashboardCount(RaceRequests)
    \/ DashboardTest
    \/ DashboardDivide
    \/ AdviceExists(RaceRequests)
    \/ AdviceTopCategory
    \/ AdviceCompare
    \/ AdviceDescribe
    \/ AdviceExceeded
    \/ AdviceTestTotal
    \/ AdvicePct
    \/ AdviceTopReasons
    \/ AdviceTrendExists
    \/ AdviceAverage

SpecRace == Init /\ [][NextRace]_vars

----------------------------------------------------------------------------
(* Properties                                                              *)

RespScope == resp.req.user_branch
RespStart == StartOf(resp.req, resp.at)
\* the filtered delayed-orders view of the request on record
RespView == DelayedOrders(orders, RespScope, RespStart, resp.req)
\* the period/scope delayed-orders view of the request on record
RespScopeView == DelayedInScope(orders, RespScope, RespStart)
\* the category code of each order of that view
RespCategoryCode == [o \in DOMAIN RespScopeView |-> OrderCategoryCode(o)]
\* the baseline count of the dashboard for the request on record
RespBaseline == Count(DashboardBaseline(orders, RespScope, RespStart))
Percent(n) == n * 100

\* C1: the delay percentage of the summary and the delay rate of the
\* dashboard lie between 0 and 100 percent, and are 0 when the baseline
\* count is 0.
C1_DelayPercentageWithin0And100 ==
    /\ (resp.view = "summary" /\ resp.out.success) =>
          /\ resp.out.summary.delay_percentage \in 0..Percent(100)
          /\ resp.out.summary.total_all_orders = 0 =>
                resp.out.summary.delay_percentage = 0
    /\ (resp.view = "dashboard" /\ resp.out.success) =>
          /\ resp.out.delay_rate \in 0..Percent(100)
          /\ RespBaseline = 0 => resp.out.delay_rate = 0

\* C4: every call completes, and every rate or percentage whose denominator
\* is zero is 0; the order-type breakdown of an empty view is an empty list.
C4_ZeroDenominatorYieldsZero ==
    resp.view # "none" =>
      /\ resp.out.success
      /\ resp.view = "dashboard" =>
            (RespBaseline = 0 => resp.out.delay_rate = 0)
      /\ resp.view = "summary" =>
            /\ resp.out.summary.total_all_orders = 0 =>
                  resp.out.summary.delay_percentage = 0
            /\ resp.out.summary.total_delayed_orders = 0 =>
                  \A i \in DOMAIN resp.out.top_reasons :
                      resp.out.top_reasons[i].percentage = <<0, 1>>
      /\ resp.view = "breakdown" =>
            (resp.out.total = 0 => resp.out.data = <<>>)
      /\ resp.view = "trends" =>
            \A i \in DOMAIN resp.out.data :
                resp.out.data[i].total_orders = 0 => resp.out.data[i].delay_rate = 0
      /\ resp.view = "by_order_type" =>
            (Count(RespView) = 0 => resp.out.data = <<>>)
      /\ resp.view = "all_reasons" =>
            (Count(RespView) = 0 => (resp.out.data = <<>> /\ resp.out.total = 0))
      /\ resp.view = "recommendations" =>
            (Count(RespScopeView) = 0 => resp.out.recommendations = <<>>)

\* the order-type breakdown answered an empty view of a store that holds
\* delayed orders
C4_Witness ==
    /\ resp.view = "by_order_type"
    /\ Count(RespView) = 0
    /\ \E o \in DOMAIN orders : IsDelayed(o)
    /\ resp.out.success /\ resp.out.data = <<>>

\* C6: estimated_revenue_impact is the sum of the invoice amounts of every
\* delayed order of the period/scope view, whether or not the order has its
\* started_at and completed_at timestamps.
C6_RevenueOfEveryDelayedOrder ==
    resp.view = "impact" =>
        resp.out.impact.estimated_revenue_impact =
            SumOver(DOMAIN RespScopeView,
                    [o \in DOMAIN RespScopeView |-> RespScopeView[o] * InvoiceTotal(o)])

\* a call that repeats the request of the response on record; no write lies
\* between the two calls
RepeatedCall ==
    /\ resp # NoResp
    /\ resp'.view = resp.view
    /\ resp'.req = resp.req
    /\ resp'.again

\* C7: a view called twice with the same parameters and no write between the
\* calls answers the same, also when the clock advanced between the calls.
C7_SameAnswerWhateverTheClock ==
    [][RepeatedCall => resp'.out = resp.out]_vars

\* C7 as amended: the two answers are the same when the clock did not advance
\* between the calls or the period is 'all'.
C7_SameAnswerAtSameStart ==
    [][(RepeatedCall /\ (resp'.at = resp.at \/ TimePeriod(resp.req) = "all"))
          => resp'.out = resp.out]_vars

\* a repeated call for period 'all' after the clock advanced, on a view that
\* is not empty
C7_Witness ==
    /\ resp.view = "all_reasons"
    /\ resp.again
    /\ resp.at > Now0
    /\ TimePeriod(resp.req) = "all"
    /\ resp.out.total > 0

KnownPeriodDays ==
    [p \in {"7days", "30days", "90days", "6months", "1year"} |->
        CASE p = "7days" -> 7 [] p = "30days" -> 30 [] p = "90days" -> 90
          [] p = "6months" -> 180 [] p = "1year" -> 365]

AsPeriod(req, period) ==
    Request([k \in DOMAIN req.GET \cup {"period"} |->
                IF k = "period" THEN period ELSE req.GET[k]], req.user_branch)

\* what a view computes: the JSON body of an endpoint; of the dashboard page
\* the statistics of its template context (the context also echoes the raw
\* request parameters)
Computed(view, out) ==
    IF view = "dashboard" /\ out.success
    THEN [total_delayed_orders |-> out.total_delayed_orders,
          delay_rate |-> out.delay_rate]
    ELSE out

\* C8: the five named periods start 7, 30, 90, 180 and 365 days before the
\* clock of the call, 'all' has no start, and a call with any other or no
\* period computes what the same call with period 30days computes.
C8_PeriodMapping ==
    resp.view # "none" =>
      /\ \A p \in DOMAIN KnownPeriodDays :
            GetStartDateFromPeriod(p, resp.at) = resp.at - KnownPeriodDays[p] * 24
      /\ GetStartDateFromPeriod("all", resp.at) = NULL
      /\ TimePeriod(resp.req) \in DOMAIN KnownPeriodDays =>
            RespStart = resp.at - KnownPeriodDays[TimePeriod(resp.req)] * 24
      /\ ("period" \notin DOMAIN resp.req.GET
            \/ resp.req.GET["period"] \notin DOMAIN KnownPeriodDays \cup {"all"}) =>
            /\ RespStart = resp.at - 30 * 24
            /\ Computed(resp.view, resp.out) =
                  Computed(resp.view,
                           ViewOutput(resp.view, orders, resp.at,
                                      AsPeriod(resp.req, "30days"), rowOrder))

\* a call with the unknown period 'foo' whose 30-day view holds an order that
\* the 7-day view does not
C8_Witness ==
    /\ resp.view = "all_reasons"
    /\ "period" \in DOMAIN resp.req.GET /\ resp.req.GET["period"] = "foo"
    /\ resp.out.total > 0
    /\ resp.out # ViewOutput("all_reasons", orders, resp.at,
                             AsPeriod(resp.req, "7days"), rowOrder)

DataCountSum(data) == SeqSum([i \in DOMAIN data |-> data[i].count])

\* C2: the counts of the category breakdown add up to its total field; the
\* sum is the size of the filtered delayed-orders view when every order of
\* the view has a category and at most that size otherwise; each entry counts
\* the orders of the view of its own category, and no category is listed
\* twice.
C2_CategoryCountsPartitionTheView ==
    (resp.view = "breakdown" /\ resp.out.success) =>
        LET data == resp.out.data
        IN  /\ DataCountSum(data) = resp.out.total
            /\ DataCountSum(data) <= Count(RespView)
            /\ (\A o \in DOMAIN RespView : OrderCategory(o) # NULL) =>
                  DataCountSum(data) = Count(RespView)
            /\ \A i, j \in DOMAIN data :
                  i # j => data[i].category # data[j].category
            /\ \A i \in DOMAIN data :
                  data[i].count = Count(Filter(RespView, {o \in DOMAIN RespView :
                                      OrderCategoryCode(o) = data[i].category}))

\* a breakdown under an order type filter whose view holds categorised orders
\* and an order without category
C2_Witness ==
    /\ resp.view = "breakdown"
    /\ SelectedOrderType(resp.req) = "sales"
    /\ resp.out.success
    /\ resp.out.total >= 1
    /\ resp.out.total < Count(RespView)

FilterViews ==
    {"dashboard", "summary", "breakdown", "trends", "by_order_type", "by_user",
     "all_reasons"}

\* a filter value that matches no stored record
UnknownFilterValue(req) ==
    \/ SelectedCategory(req) # "" /\
          SelectedCategory(req) \notin {CategoryCode[c] : c \in Categories}
    \/ SelectedUser(req) # "" /\
          (SelectedUser(req) \in NumericStrings =>
              IntOf(SelectedUser(req)) \notin Users)
    \/ SelectedOrderType(req) # "" /\
          SelectedOrderType(req) \notin {OrderTypes[i] : i \in DOMAIN OrderTypes}

EmptyResult(view, out) ==
    CASE view = "dashboard" -> out.total_delayed_orders = 0 /\ out.delay_rate = 0
      [] view = "summary" -> /\ out.summary.total_delayed_orders = 0
                             /\ out.summary.delay_percentage = 0
                             /\ out.top_reasons = <<>>
      [] view = "all_reasons" -> out.data = <<>> /\ out.total = 0
      [] OTHER -> out.data = <<>>

\* C3: a category, user or order type value that matches no stored record
\* gives a successful, empty result in every view that takes the filters.
C3_UnknownFilterValueGivesEmptyResult ==
    (resp.view \in FilterViews /\ UnknownFilterValue(resp.req)) =>
        (resp.out.success /\ EmptyResult(resp.view, resp.out))

\* C5: the top reasons of the summary come in non-increasing order of their
\* reported count, each count is the number of orders of the filtered view
\* with that reason, and a reason of the view is left out only when the list
\* is full.
C5_TopReasonsOrderedByReportedCount ==
    (resp.view = "summary" /\ resp.out.success) =>
        LET top == resp.out.top_reasons
            inView(r) == Count(Filter(RespView, {o \in DOMAIN RespView : o.delay_reason = r}))
        IN  /\ \A i \in DOMAIN top :
                  i < Len(top) => top[i].count >= top[i + 1].count
            /\ \A i \in DOMAIN top : \E r \in Reasons :
                  top[i].reason_text = ReasonText(r) /\ top[i].count = inView(r)
            /\ Len(top) < TopReasonsLimit =>
                  \A r \in Reasons : inView(r) > 0 =>
                      \E i \in DOMAIN top : top[i].reason_text = ReasonText(r)

\* the request on record without its category, user and order type
PeriodOnly(req) ==
    Request([k \in DOMAIN req.GET \cap {"period"} |-> req.GET[k]], req.user_branch)

\* C9: the recommendations of a call are those of the call with the same
\* period and scope and no category, user or order type parameter.
C9_AdviceIgnoresFilters ==
    resp.view = "recommendations" =>
        resp.out = ApiDelayRecommendations(orders, resp.at, PeriodOnly(resp.req),
                                           rowOrder.ties)

\* recommendations were given for a request whose category filter would
\* narrow the view
C9_Witness ==
    /\ resp.view = "recommendations"
    /\ SelectedCategory(resp.req) = "logistics"
    /\ SelectedUser(resp.req) = "abc"
    /\ Len(resp.out.recommendations) > 1
    /\ Count(RespScopeView) > Count(Filter(RespScopeView, {o \in DOMAIN RespScopeView :
                                        OrderCategoryCode(o) = "logistics"}))

MaxOf(f) == IF DOMAIN f = {} THEN 0
            ELSE CHOOSE n \in {f[k] : k \in DOMAIN f} : \A k \in DOMAIN f : f[k] <= n

\* C10: a high-priority Process Improvement recommendation is given exactly
\* when the period/scope view is not empty and its largest category group
\* holds more than 30% of its orders (orders whose reason has no category
\* form one group); it names a group of that size.
C10_DominantCategoryRule ==
    resp.view = "recommendations" =>
        LET recs == resp.out.recommendations
            groups == GroupCount(RespScopeView, RespCategoryCode)
            total == Count(RespScopeView)
            emitted == {i \in DOMAIN recs :
                           /\ recs[i].priority = "high"
                           /\ recs[i].category = "Process Improvement"}
        IN  /\ (emitted # {}) <=> (total > 0 /\ MaxOf(groups) * 100 > 30 * total)
            /\ Cardinality(emitted) <= 1
            /\ \A i \in emitted : \E code \in DOMAIN groups :
                  /\ groups[code] = MaxOf(groups)
                  /\ recs[i].title = <<"Address", GetCategoryDisplay(code)>>

\* twenty delayed orders whose largest category holds six: exactly 30%, and
\* no Process Improvement recommendation
C10_Witness ==
    /\ resp.view = "recommendations"
    /\ Count(RespScopeView) = 20
    /\ MaxOf(GroupCount(RespScopeView, RespCategoryCode)) = 6
    /\ \A i \in DOMAIN resp.out.recommendations :
          resp.out.recommendations[i].category # "Process Improvement"

\* the records the four rules emit on the view of the request on record, in
\* rule order
RespEmitted ==
    DominantCategoryAdvice(RespScopeView, rowOrder.ties)
    \o ThresholdAdvice(RespScopeView)
    \o RootCauseAdvice(RespScopeView, rowOrder.ties)
    \o TrendAdvice(RespScopeView)

OfPriority(recs, p) == SelectSeq(recs, LAMBDA r : r.priority = p)
IsPrefix(s, t) == Len(s) <= Len(t) /\ s = SubSeq(t, 1, Len(s))

\* C11: in the returned recommendations every high record comes before every
\* medium record and every medium before every low one; the records of one
\* priority are, in the order of their emission by rules 1 to 4, the first
\* of those emitted with that priority, the root causes among them by
\* non-increasing count; the list has the length of the emitted sequence, or
\* 8 if that is longer.
C11_StableSortByPriorityFirst8 ==
    resp.view = "recommendations" =>
        LET recs == resp.out.recommendations
        IN  /\ \A i, j \in DOMAIN recs : i < j =>
                  /\ recs[i].priority = "medium" => recs[j].priority # "high"
                  /\ recs[i].priority = "low" => recs[j].priority \notin {"high", "medium"}
                  /\ (recs[i].category = "Root Cause Analysis"
                        /\ recs[j].category = "Root Cause Analysis") =>
                        recs[i].description[2] >= recs[j].description[2]
            /\ \A p \in {"high", "medium", "low"} :
                  IsPrefix(OfPriority(recs, p), OfPriority(RespEmitted, p))
            /\ \A i \in DOMAIN recs : recs[i].priority \in {"high", "medium", "low"}
            /\ Len(recs) = IF Len(RespEmitted) > 8 THEN 8 ELSE Len(RespEmitted)

\* the trend record, emitted last, was returned before a threshold record of
\* medium priority, which is followed by three root causes
C11_Witness ==
    /\ resp.view = "recommendations"
    /\ LET recs == resp.out.recommendations
       IN  \E i, j \in DOMAIN recs :
              /\ i < j
              /\ recs[i].category = "Trend"
              /\ recs[j].category = "Urgent" /\ recs[j].priority = "medium"
              /\ j + 3 = Len(recs)
              /\ recs[Len(recs)].category = "Root Cause Analysis"

\* the reasons of the orders of the period/scope view of the request on record
RespReasons == {o.delay_reason : o \in DOMAIN RespScopeView}
RootCauses(recs) == SelectSeq(recs, LAMBDA r : r.category = "Root Cause Analysis")

\* C12: the summary lists at most 10 top reasons, the impact analysis at most
\* 5 reasons, the recommendations hold at most 3 root causes and at most 8
\* records; with that many reasons or more in the view the first three lists
\* are exactly that long.
C12_ListsKeepTheirCaps ==
    /\ (resp.view = "summary" /\ resp.out.success) =>
          /\ Len(resp.out.top_reasons) <= 10
          /\ Cardinality({o.delay_reason : o \in DOMAIN RespView}) >= 10 =>
                Len(resp.out.top_reasons) = 10
    /\ resp.view = "impact" =>
          /\ Len(resp.out.reason_impact) <= 5
          /\ Cardinality(RespReasons) >= 5 => Len(resp.out.reason_impact) = 5
    /\ resp.view = "recommendations" =>
          /\ Len(RootCauses(resp.out.recommendations)) <= 3
          /\ Cardinality(RespReasons) >= 3 =>
                Len(RootCauses(resp.out.recommendations)) = 3
          /\ Len(resp.out.recommendations) <= 8

\* a summary of a view with orders of 11 reasons
C12_Witness ==
    /\ resp.view = "summary"
    /\ Cardinality({o.delay_reason : o \in DOMAIN RespView}) = 11
    /\ Len(resp.out.top_reasons) = 10

\* C13: with orders written between the queries of a call, no call of the
\* dashboard or of the recommendations ends in a division by zero: a count
\* tested as greater than 0 is never queried again as 0 and used as divisor.
C13_NoDivisionByZeroUnderWrites ==
    resp.view \in {"dashboard", "recommendations"} =>
        (resp.out.success \/ resp.out.error # "ZeroDivisionError")

DelayCountSum(data) == SeqSum([i \in DOMAIN data |-> data[i].delay_count])

\* C14: on one store, clock, scope and set of filters, total_delayed_orders
\* of the summary is the total of the all-reasons listing, the sum of its
\* counts and the sum of the counts of the order-type breakdown; the delay
\* counts of the user breakdown add up to at most that, and to exactly that
\* when every order of the view has a reporter.
C14_ViewsAgreeOnDelayedTotal ==
    (resp.view = "summary" /\ resp.out.success) =>
        LET n == resp.out.summary.total_delayed_orders
            listing == ApiAllDelayReasons(orders, resp.at, resp.req, rowOrder.ties)
            types == ApiDelayByOrderType(orders, resp.at, resp.req, rowOrder.ties)
            users == ApiDelayByUser(orders, resp.at, resp.req, rowOrder.ties)
        IN  /\ listing.success /\ types.success /\ users.success
            /\ n = Count(RespView)
            /\ listing.total = n
            /\ DataCountSum(listing.data) = n
            /\ DataCountSum(types.data) = n
            /\ DelayCountSum(users.data) <= n
            /\ (\A o \in DOMAIN RespView : o.delay_reason_reported_by # NULL) =>
                  DelayCountSum(users.data) = n

\* a summary under the order type filter whose view is smaller than the
\* period/scope view and holds an order without reporter
C14_Witness ==
    /\ resp.view = "summary"
    /\ SelectedOrderType(resp.req) = "sales"
    /\ resp.out.success
    /\ resp.out.summary.total_delayed_orders >= 2
    /\ resp.out.summary.total_delayed_orders < Count(RespScopeView)
    /\ \E o \in DOMAIN RespView : o.delay_reason_reported_by = NULL

OfCategory(recs, c) == SelectSeq(recs, LAMBDA r : r.category = c)

\* C15: one call emits at most 6 records: at most one for the dominant
\* category, one for the threshold, three root causes and one for the trend;
\* the returned list holds every emitted record, none is cut off.
C15_AtMostSixEmittedAllReturned ==
    resp.view = "recommendations" =>
        LET recs == resp.out.recommendations
            emitted == RespEmitted
        IN  /\ Len(emitted) <= 6
            /\ Len(OfCategory(emitted, "Process Improvement")) <= 1
            /\ Len(OfCategory(emitted, "Urgent")) <= 1
            /\ Len(OfCategory(emitted, "Root Cause Analysis")) <= 3
            /\ Len(OfCategory(emitted, "Trend")) <= 1
            /\ \A i \in DOMAIN emitted :
                  emitted[i].category \in
                      {"Process Improvement", "Urgent", "Root Cause Analysis", "Trend"}
            /\ Len(recs) = Len(emitted)
            /\ \A i \in DOMAIN emitted : \E j \in DOMAIN recs : recs[j] = emitted[i]

\* all four rules emitted, the third three records, on a view with orders of
\* 9 reasons or more: six records returned
C15_Witness ==
    /\ resp.view = "recommendations"
    /\ Cardinality(RespReasons) >= 9
    /\ Len(resp.out.recommendations) = 6
    /\ Len(OfCategory(resp.out.recommendations, "Process Improvement")) = 1

====
